---- MODULE Spec2Model ----
(***************************************************************************)
(* PrimalDataMesh (connectors.py): a fan-out client that writes one event  *)
(* to ten backends, reads recent events back from five of them, copies the *)
(* rows of one key from the time-series store to the OLAP store, and       *)
(* closes its eight handles.                                               *)
(*                                                                         *)
(* Every method is modelled step by step: one action per backend call, in  *)
(* the order of the statements of the method.  The backends are modelled   *)
(* by the data they hold; whether a call to a backend succeeds is chosen   *)
(* by the environment at each call.                                        *)
(***************************************************************************)
EXTENDS Integers, Sequences, FiniteSets, TLC

(* ---------------------------- bounds ----------------------------------- *)

\* write_event calls started in one run
MaxWrites == 2
\* calls of the Mesh's methods started in one run
MaxOps == 3
\* backend calls the environment makes fail in one run
MaxFailures == 1
\* last tick of the wall clock
MaxTime == 2
\* largest limit passed to query_recent_events
MaxLimit == 2

(* ---------------------------- inputs ----------------------------------- *)

\* The sub-second resolution of datetime.now(): ticks per whole second.
TicksPerSec == 2

\* Keys are strings; the third one contains a single quote.
Keys == {"a", "b", "a'"}
Values == {1, 2}
\* metadata mappings: non-empty ones, of string fields
Metas == {"{sensor}"}
Limits == 0..MaxLimit
\* names passed as source_db / target_db
DbNames == {"timescale", "clickhouse", "postgres"}

(* ---------------------------- orders ----------------------------------- *)

\* (variant: postgres is written before qdrant)
WriteOrder_Swapped ==
  <<"redis", "timescale", "influx", "neo4j", "clickhouse", "postgres",
    "qdrant", "mongodb", "elasticsearch", "prometheus">>

\* The order of the try-blocks of write_event.
WriteOrder ==
  <<"redis", "timescale", "influx", "neo4j", "clickhouse", "qdrant",
    "postgres", "mongodb", "elasticsearch", "prometheus">>

\* The order of the try-blocks of query_recent_events.
QueryOrder == <<"timescale", "clickhouse", "postgres", "mongodb", "elasticsearch">>

\* The order of the close() calls of close.
CloseOrder ==
  <<"redis", "timescale", "influx", "neo4j", "clickhouse",
    "postgres", "mongodb", "elasticsearch">>

Handles == {CloseOrder[i] : i \in 1..Len(CloseOrder)}
Relational == {"timescale", "postgres"}

(* ---------------------------- values ----------------------------------- *)

\* Python's None
None == "None"

\* results['prometheus']
PrometheusOk == "ok (pull-based, no push needed)"

\* f'error: {e}'
ErrorEntry(e) == "error: " \o e

\* str(e) of the exceptions of the model
Unreachable == "connection refused"
HandleUnusable == "connection already closed or transaction aborted"
SyntaxError == "syntax error"

\* the decimal text of a small number, as an f-string renders it
Digits == <<"0", "1", "2", "3", "4", "5", "6", "7", "8", "9">>
ToStr(n) == Digits[n + 1]
\* the number a decimal text denotes
ParseInt(s) == CHOOSE n \in 0..9 : Digits[n + 1] = s
IsNumber(s) == \E n \in 0..9 : Digits[n + 1] = s

\* int(timestamp.timestamp()): the whole seconds of a timestamp
TsUnix(ts) == ts \div TicksPerSec

(* ---------------------- the OLAP store's SQL text ---------------------- *)

\* The character of s at position i.
CharAt(s, i) == SubSeq(s, i, i)

\* How the OLAP store reads a string literal of a statement: i is the position
\* after the opening quote; a doubled quote stands for one quote, a single one
\* ends the literal, and a literal that never ends is a syntax error.
RECURSIVE LexString(_, _, _)
LexString(s, i, acc) ==
  IF i > Len(s) THEN [ok |-> FALSE, val |-> acc, next |-> i]
  ELSE IF CharAt(s, i) = "'"
       THEN IF i < Len(s) /\ CharAt(s, i + 1) = "'"
            THEN LexString(s, i + 2, acc \o "'")
            ELSE [ok |-> TRUE, val |-> acc, next |-> i + 1]
       ELSE LexString(s, i + 1, acc \o CharAt(s, i))

\* f"(toDateTime({ts_unix}), '{key}', {value})"
InsertText(tsu, k, v) ==
  "(toDateTime(" \o ToStr(tsu) \o "), '" \o k \o "', " \o ToStr(v) \o ")"

\* The row the OLAP store reads from the VALUES text, or a syntax error.
ParseInsert(text) ==
  LET bad == [ok |-> FALSE, row |-> <<>>]
      n   == Len(text)
  IN IF n < 17 \/ SubSeq(text, 1, 12) # "(toDateTime(" \/ ~IsNumber(CharAt(text, 13))
        \/ SubSeq(text, 14, 17) # "), '"
     THEN bad
     ELSE LET lit == LexString(text, 18, "")
              r   == lit.next
          IN IF lit.ok /\ n = r + 3 /\ SubSeq(text, r, r + 1) = ", "
                /\ IsNumber(CharAt(text, r + 2)) /\ CharAt(text, r + 3) = ")"
             THEN [ok |-> TRUE,
                   row |-> <<ParseInt(CharAt(text, 13)), lit.val,
                             ParseInt(CharAt(text, r + 2))>>]
             ELSE bad

\* f"WHERE k = '{key}' ORDER BY ts DESC LIMIT {limit}"
SelectText(k, limit) ==
  "WHERE k = '" \o k \o "' ORDER BY ts DESC LIMIT " \o ToStr(limit)

\* The key and limit the OLAP store reads from the query text, or a syntax error.
ParseSelect(text) ==
  LET bad  == [ok |-> FALSE, k |-> "", limit |-> 0]
      tail == " ORDER BY ts DESC LIMIT "
      n    == Len(text)
  IN IF n < 11 \/ SubSeq(text, 1, 11) # "WHERE k = '"
     THEN bad
     ELSE LET lit == LexString(text, 12, "")
              r   == lit.next
          IN IF lit.ok /\ n = r + Len(tail) /\ SubSeq(text, r, n - 1) = tail
                /\ IsNumber(CharAt(text, n))
             THEN [ok |-> TRUE, k |-> lit.val, limit |-> ParseInt(CharAt(text, n))]
             ELSE bad

(* ---------------------------- queries ---------------------------------- *)

Min(a, b) == IF a < b THEN a ELSE b

Remove(s, i) == SubSeq(s, 1, i - 1) \o SubSeq(s, i + 1, Len(s))

\* the records of a store
Range(s) == {s[i] : i \in 1..Len(s)}

\* WHERE k = key: the rows of s, in store order, that are in keep
RECURSIVE Filter(_, _)
Filter(s, keep) ==
  IF s = <<>> THEN <<>>
  ELSE (IF Head(s) \in keep THEN <<Head(s)>> ELSE <<>>) \o Filter(Tail(s), keep)

\* ORDER BY t DESC over a sequence of [t, row]: every order a store may
\* answer in; rows of equal time come in any order.
RECURSIVE DescOrders(_)
DescOrders(s) ==
  IF s = <<>> THEN {<<>>}
  ELSE UNION {{<<s[i]>> \o rest : rest \in DescOrders(Remove(s, i))} :
              i \in {j \in 1..Len(s) : \A m \in 1..Len(s) : s[m].t <= s[j].t}}

\* LIMIT n
Take(s, n) == SubSeq(s, 1, Min(n, Len(s)))

\* cursor.limit(n) of the document store: 0 means no limit
MongoLimit(s, n) == IF n = 0 THEN s ELSE Take(s, n)

\* the rows of a sequence of [t, row]
Rows(s) == [i \in 1..Len(s) |-> s[i].row]

(* ---------------------------- state ------------------------------------ *)

VARIABLES
  pc,        \* "idle", the method running ("write", "query", "sync", "close"), or "done"
  idx,       \* the next step of the running method
  arg,       \* the arguments of the running method (and the timestamp it took)
  results,   \* the results dict of write_event / query_recent_events
  ret,       \* the string sync_data_cross_database returned, or None
  exc,       \* str(e) of the exception that escaped the method, or None
  calls,     \* the backend calls the running method has made, in order
  fetched,   \* cursor.fetchall() of sync_data_cross_database
  down,      \* the backends whose call the environment made fail in this method
  db,        \* what each backend holds
  db0,       \* what each backend held when the running method was called
  handle,    \* the state of each of the eight handles of the Mesh
  now,       \* the wall clock, in ticks
  nWrites, nOps, nFails

ctl == <<pc, idx, arg, results, ret, exc, calls, fetched, down>>
vars == <<pc, idx, arg, results, ret, exc, calls, fetched, down,
          db, db0, handle, now, nWrites, nOps, nFails>>

NoArg == [op |-> None, key |-> "", value |-> 0, metadata |-> "", ts |-> 0,
          limit |-> 0, source |-> "", target |-> ""]

EmptyMap == [b \in {} |-> ""]

\* __init__: every handle open, at a moment when the stores hold nothing
Init ==
  /\ pc = "idle" /\ idx = 0 /\ arg = NoArg /\ results = EmptyMap
  /\ ret = None /\ exc = None /\ calls = <<>> /\ fetched = <<>> /\ down = {}
  /\ db = [redis |-> [k \in Keys |-> None], redis_meta |-> [k \in Keys |-> None],
           timescale |-> <<>>, influx |-> {}, neo4j |-> {}, clickhouse |-> <<>>,
           qdrant |-> {}, postgres |-> <<>>, mongodb |-> <<>>, elasticsearch |-> <<>>]
  /\ db0 = db
  /\ handle = [h \in Handles |-> "open"]
  /\ now = 0 /\ nWrites = 0 /\ nOps = 0 /\ nFails = 0

\* The environment may make one more backend call fail.
CanFail == nFails < MaxFailures

\* results[b] = e
Put(b, e) == [x \in DOMAIN results \cup {b} |-> IF x = b THEN e ELSE results[x]]

\* a Python str / list value of the query results
Str(s) == [type |-> "str", str |-> s, rows |-> <<>>]
List(l) == [type |-> "list", str |-> "", rows |-> l]

\* A statement on a psycopg2 connection can run: the connection is open and
\* no earlier statement on it failed (the Mesh never rolls back or reconnects).
Usable(h) == handle[h] = "open"

\* The handle after a call on it: a failed statement on a relational handle
\* leaves the connection broken or in an aborted transaction.
AfterCall(h, failed) ==
  IF failed /\ h \in Relational /\ handle[h] = "open"
  THEN [handle EXCEPT ![h] = "aborted"]
  ELSE handle

(* ---------------------------- write_event ------------------------------ *)

\* (variant: the exception of a failed call escapes write_event)
WriteDone_Raise(b, e, cs, failed) ==
  /\ results' = IF failed THEN results ELSE Put(b, e)
  /\ calls' = calls \o cs
  /\ idx' = idx + 1
  /\ pc' = IF failed THEN "done" ELSE pc
  /\ exc' = IF failed THEN e ELSE exc
  /\ down' = IF failed THEN down \cup {b} ELSE down
  /\ nFails' = IF failed THEN nFails + 1 ELSE nFails
  /\ UNCHANGED <<arg, ret, fetched, db0, now, nWrites, nOps>>

\* one try-block of write_event finished with entry e after the calls cs
WriteDone(b, e, cs, failed) ==
  /\ results' = Put(b, e)
  /\ calls' = calls \o cs
  /\ idx' = idx + 1
  /\ down' = IF failed THEN down \cup {b} ELSE down
  /\ nFails' = IF failed THEN nFails + 1 ELSE nFails
  /\ UNCHANGED <<pc, arg, ret, exc, fetched, db0, now, nWrites, nOps>>

AtWrite(b) == pc = "write" /\ idx <= Len(WriteOrder) /\ WriteOrder[idx] = b

WriteEventStart(key, value, metadata) ==
  /\ pc = "idle" /\ nWrites < MaxWrites /\ nOps < MaxOps
  /\ pc' = "write" /\ idx' = 1
  /\ arg' = [NoArg EXCEPT !.op = "write", !.key = key, !.value = value,
                          !.metadata = metadata, !.ts = now]
  /\ results' = EmptyMap
  /\ nWrites' = nWrites + 1 /\ nOps' = nOps + 1 /\ db0' = db
  /\ UNCHANGED <<ret, exc, calls, fetched, down, db, handle, now, nFails>>

\* (variant: a key already held keeps its value)
RedisSet_IfAbsent(key, value) ==
  IF db.redis[key] = None THEN [db.redis EXCEPT ![key] = ToStr(value)] ELSE db.redis

\* the cache after redis_client.set(key, value): the value is held as text
RedisSet(key, value) == [db.redis EXCEPT ![key] = ToStr(value)]

\* 1. redis: set, then hset of the metadata mapping
WriteRedis ==
  /\ AtWrite("redis")
  /\ \E out \in {"ok", "set fails", "hset fails"} :
       /\ out # "ok" => CanFail
       /\ IF out = "set fails"
          THEN /\ db' = db
               /\ WriteDone("redis", ErrorEntry(Unreachable), <<"redis.set">>, TRUE)
          ELSE LET kv == RedisSet(arg.key, arg.value)
               IN IF out = "hset fails"
                  THEN /\ db' = [db EXCEPT !.redis = kv]
                       /\ WriteDone("redis", ErrorEntry(Unreachable),
                                    <<"redis.set", "redis.hset">>, TRUE)
                  ELSE /\ db' = [db EXCEPT !.redis = kv,
                                           !.redis_meta[arg.key] = arg.metadata]
                       /\ WriteDone("redis", "ok", <<"redis.set", "redis.hset">>, FALSE)
  /\ UNCHANGED handle

\* 2. / 7. a relational store: INSERT and commit on the Mesh's connection
WriteRelational(b, row) ==
  /\ AtWrite(b)
  /\ IF ~Usable(b)
     THEN /\ db' = db /\ handle' = handle
          /\ WriteDone(b, ErrorEntry(HandleUnusable), <<b>>, FALSE)
     ELSE \E fail \in BOOLEAN :
            /\ fail => CanFail
            /\ handle' = AfterCall(b, fail)
            /\ IF fail
               THEN db' = db /\ WriteDone(b, ErrorEntry(Unreachable), <<b>>, TRUE)
               ELSE db' = [db EXCEPT ![b] = Append(@, row)]
                    /\ WriteDone(b, "ok", <<b>>, FALSE)

WriteTimescale ==
  WriteRelational("timescale", <<arg.ts, arg.key, arg.value>>)

WritePostgres ==
  WriteRelational("postgres",
    [ts |-> arg.ts, key |-> arg.key, value |-> arg.value, metadata |-> arg.metadata])

\* a store whose call either fails or applies upd to what it holds
WriteSimple(b, upd) ==
  /\ AtWrite(b)
  /\ \E fail \in BOOLEAN :
       /\ fail => CanFail
       /\ IF fail
          THEN db' = db /\ WriteDone(b, ErrorEntry(Unreachable), <<b>>, TRUE)
          ELSE db' = [db EXCEPT ![b] = upd] /\ WriteDone(b, "ok", <<b>>, FALSE)
  /\ UNCHANGED handle

\* 3. influx: a point of measurement readings; a point of the same series and
\* time replaces the one held
WriteInflux ==
  WriteSimple("influx",
    {p \in db.influx : ~(p.key = arg.key /\ p.time = TsUnix(arg.ts))}
      \cup {[key |-> arg.key, time |-> TsUnix(arg.ts), value |-> arg.value]})

\* 4. neo4j: MERGE (e:Event {k: $key}) SET e.ts, e.v
WriteNeo4j ==
  WriteSimple("neo4j",
    {n \in db.neo4j : n.k # arg.key}
      \cup {[k |-> arg.key, ts |-> TsUnix(arg.ts), v |-> arg.value]})

\* (variant: a row already held is not inserted again)
ClickhouseInsert_Distinct(row) ==
  IF \E i \in 1..Len(db.clickhouse) : db.clickhouse[i] = row
  THEN db
  ELSE [db EXCEPT !.clickhouse = Append(@, row)]

\* what the backends hold after INSERT INTO logs.events VALUES row
ClickhouseInsert(row) == [db EXCEPT !.clickhouse = Append(@, row)]

\* 5. clickhouse: INSERT with the key and the value inlined in the statement
WriteClickhouse ==
  /\ AtWrite("clickhouse")
  /\ LET stmt == ParseInsert(InsertText(TsUnix(arg.ts), arg.key, arg.value))
     IN \E fail \in BOOLEAN :
          /\ fail => CanFail
          /\ IF fail
             THEN db' = db
                  /\ WriteDone("clickhouse", ErrorEntry(Unreachable), <<"clickhouse">>, TRUE)
             ELSE IF ~stmt.ok
             THEN db' = db
                  /\ WriteDone("clickhouse", ErrorEntry(SyntaxError), <<"clickhouse">>, FALSE)
             ELSE db' = ClickhouseInsert(stmt.row)
                  /\ WriteDone("clickhouse", "ok", <<"clickhouse">>, FALSE)
  /\ UNCHANGED handle

\* (variant: a plain insert; the point already held under the id is kept)
WriteQdrant_Insert ==
  /\ AtWrite("qdrant")
  /\ \E out \in {"ok", "status 500", "no connection"} :
       /\ out # "ok" => CanFail
       /\ IF out = "ok"
          THEN /\ db' = [db EXCEPT !.qdrant =
                           @ \cup {[id |-> TsUnix(arg.ts), key |-> arg.key,
                                    value |-> arg.value]}]
               /\ WriteDone("qdrant", "ok", <<"qdrant">>, FALSE)
          ELSE /\ db' = db
               /\ WriteDone("qdrant",
                            ErrorEntry(IF out = "status 500" THEN "500" ELSE Unreachable),
                            <<"qdrant">>, TRUE)
  /\ UNCHANGED handle

\* 6. qdrant: HTTP upsert of the point with id ts_unix
WriteQdrant ==
  /\ AtWrite("qdrant")
  /\ \E out \in {"ok", "status 500", "no connection"} :
       /\ out # "ok" => CanFail
       /\ IF out = "ok"
          THEN /\ db' = [db EXCEPT !.qdrant =
                           {q \in @ : q.id # TsUnix(arg.ts)}
                             \cup {[id |-> TsUnix(arg.ts), key |-> arg.key,
                                    value |-> arg.value]}]
               /\ WriteDone("qdrant", "ok", <<"qdrant">>, FALSE)
          ELSE /\ db' = db
               /\ WriteDone("qdrant",
                            ErrorEntry(IF out = "status 500" THEN "500" ELSE Unreachable),
                            <<"qdrant">>, TRUE)
  /\ UNCHANGED handle

\* the document of the event
Doc == [ts |-> arg.ts, key |-> arg.key, value |-> arg.value,
        metadata |-> arg.metadata, ts_unix |-> TsUnix(arg.ts)]

\* 8. mongodb: insert_one
WriteMongodb == WriteSimple("mongodb", Append(db.mongodb, Doc))

\* 9. elasticsearch: index
WriteElasticsearch == WriteSimple("elasticsearch", Append(db.elasticsearch, Doc))

\* (variant: the last entry sums up the outcomes of the other backends)
WritePrometheus_Summary ==
  /\ AtWrite("prometheus")
  /\ results' = Put("prometheus", IF down = {} THEN PrometheusOk ELSE ErrorEntry("degraded"))
  /\ pc' = "done" /\ idx' = idx + 1
  /\ UNCHANGED <<arg, ret, exc, calls, fetched, down, db, db0, handle, now,
                 nWrites, nOps, nFails>>

\* 10. prometheus: no call; then return results
WritePrometheus ==
  /\ AtWrite("prometheus")
  /\ results' = Put("prometheus", PrometheusOk)
  /\ pc' = "done" /\ idx' = idx + 1
  /\ UNCHANGED <<arg, ret, exc, calls, fetched, down, db, db0, handle, now,
                 nWrites, nOps, nFails>>

WriteEvent ==
  \/ \E k \in Keys, v \in Values, m \in Metas : WriteEventStart(k, v, m)
  \/ WriteRedis
  \/ WriteTimescale
  \/ WriteInflux
  \/ WriteNeo4j
  \/ WriteClickhouse
  \/ WriteQdrant
  \/ WritePostgres
  \/ WriteMongodb
  \/ WriteElasticsearch
  \/ WritePrometheus

(* ------------------------ query_recent_events -------------------------- *)

\* (variant: the exception of a failed call escapes query_recent_events)
QueryDone_Raise(b, e, failed) ==
  /\ results' = IF failed THEN results ELSE Put(b, e)
  /\ calls' = Append(calls, b)
  /\ idx' = idx + 1
  /\ pc' = IF failed \/ idx = Len(QueryOrder) THEN "done" ELSE pc
  /\ exc' = IF failed THEN e.str ELSE exc
  /\ down' = IF failed THEN down \cup {b} ELSE down
  /\ nFails' = IF failed THEN nFails + 1 ELSE nFails
  /\ UNCHANGED <<arg, ret, fetched, db, db0, now, nWrites, nOps>>

\* one try-block of query_recent_events finished with entry e
QueryDone(b, e, failed) ==
  /\ results' = Put(b, e)
  /\ calls' = Append(calls, b)
  /\ idx' = idx + 1
  /\ pc' = IF idx = Len(QueryOrder) THEN "done" ELSE pc
  /\ down' = IF failed THEN down \cup {b} ELSE down
  /\ nFails' = IF failed THEN nFails + 1 ELSE nFails
  /\ UNCHANGED <<arg, ret, exc, fetched, db, db0, now, nWrites, nOps>>

AtQuery(b) == pc = "query" /\ idx <= Len(QueryOrder) /\ QueryOrder[idx] = b

QueryStart(key, limit) ==
  /\ pc = "idle" /\ nOps < MaxOps
  /\ pc' = "query" /\ idx' = 1
  /\ arg' = [NoArg EXCEPT !.op = "query", !.key = key, !.limit = limit]
  /\ results' = EmptyMap
  /\ nOps' = nOps + 1 /\ db0' = db
  /\ UNCHANGED <<ret, exc, calls, fetched, down, db, handle, now, nWrites, nFails>>

\* SELECT ts, k, v FROM readings WHERE k = %s ORDER BY ts DESC LIMIT %s
SelectReadings(k, limit) ==
  LET hit == Filter(db.timescale, {r \in Range(db.timescale) : r[2] = k})
      by  == [i \in 1..Len(hit) |-> [t |-> hit[i][1], row |-> hit[i]]]
  IN {Take(Rows(o), limit) : o \in DescOrders(by)}

\* SELECT ts, k, v FROM logs.events WHERE k = '...' ORDER BY ts DESC LIMIT ...
SelectLogsEvents(k, limit) ==
  LET hit == Filter(db.clickhouse, {r \in Range(db.clickhouse) : r[2] = k})
      by  == [i \in 1..Len(hit) |-> [t |-> hit[i][1], row |-> hit[i]]]
  IN {Take(Rows(o), limit) : o \in DescOrders(by)}

\* SELECT ts, key, value FROM events WHERE key = %s ORDER BY ts DESC LIMIT %s
SelectEvents(k, limit) ==
  LET hit == Filter(db.postgres, {r \in Range(db.postgres) : r.key = k})
      by  == [i \in 1..Len(hit) |->
                [t |-> hit[i].ts, row |-> <<hit[i].ts, hit[i].key, hit[i].value>>]]
  IN {Take(Rows(o), limit) : o \in DescOrders(by)}

\* events.find({'key': key}).sort('ts', -1).limit(limit)
FindEvents(k, limit) ==
  LET hit == Filter(db.mongodb, {r \in Range(db.mongodb) : r.key = k})
      by  == [i \in 1..Len(hit) |-> [t |-> hit[i].ts, row |-> hit[i]]]
  IN {MongoLimit(Rows(o), limit) : o \in DescOrders(by)}

\* search: match key, sort ts_unix desc, size limit
SearchEvents(k, limit) ==
  LET hit == Filter(db.elasticsearch, {r \in Range(db.elasticsearch) : r.key = k})
      by  == [i \in 1..Len(hit) |-> [t |-> hit[i].ts_unix, row |-> hit[i]]]
  IN {Take(Rows(o), limit) : o \in DescOrders(by)}

\* a SELECT on one of the two psycopg2 connections
QueryRelational(b, answers) ==
  /\ AtQuery(b)
  /\ IF ~Usable(b)
     THEN handle' = handle /\ QueryDone(b, Str(ErrorEntry(HandleUnusable)), FALSE)
     ELSE \E fail \in BOOLEAN :
            /\ fail => CanFail
            /\ handle' = AfterCall(b, fail)
            /\ IF fail
               THEN QueryDone(b, Str(ErrorEntry(Unreachable)), TRUE)
               ELSE \E rows \in answers : QueryDone(b, List(rows), FALSE)

\* a query on one of the other clients
QuerySimple(b, answers) ==
  /\ AtQuery(b)
  /\ \E fail \in BOOLEAN :
       /\ fail => CanFail
       /\ IF fail
          THEN QueryDone(b, Str(ErrorEntry(Unreachable)), TRUE)
          ELSE \E rows \in answers : QueryDone(b, List(rows), FALSE)
  /\ UNCHANGED handle

QueryTimescale == QueryRelational("timescale", SelectReadings(arg.key, arg.limit))

QueryClickhouse ==
  /\ AtQuery("clickhouse")
  /\ LET q == ParseSelect(SelectText(arg.key, arg.limit))
     IN \E fail \in BOOLEAN :
          /\ fail => CanFail
          /\ IF fail
             THEN QueryDone("clickhouse", Str(ErrorEntry(Unreachable)), TRUE)
             ELSE IF ~q.ok
             THEN QueryDone("clickhouse", Str(ErrorEntry(SyntaxError)), FALSE)
             ELSE \E rows \in SelectLogsEvents(q.k, q.limit) :
                    QueryDone("clickhouse", List(rows), FALSE)
  /\ UNCHANGED handle

QueryPostgres == QueryRelational("postgres", SelectEvents(arg.key, arg.limit))

QueryMongodb == QuerySimple("mongodb", FindEvents(arg.key, arg.limit))

QueryElasticsearch == QuerySimple("elasticsearch", SearchEvents(arg.key, arg.limit))

QueryRecentEvents ==
  \/ \E k \in Keys, l \in Limits : QueryStart(k, l)
  \/ QueryTimescale
  \/ QueryClickhouse
  \/ QueryPostgres
  \/ QueryMongodb
  \/ QueryElasticsearch

(* ---------------------- sync_data_cross_database ----------------------- *)

NotImplemented == "Sync pattern not implemented"

\* f"Synced {cursor.rowcount} rows"
Synced(n) == "Synced " \o ToStr(n) \o " rows"

\* SELECT ts, k, v FROM readings WHERE k = %s
ReadingsOf(k) == Filter(db.timescale, {r \in Range(db.timescale) : r[2] = k})

\* (variant: either name of the pair is enough)
Implemented_Either(source_db, target_db) ==
  source_db = "timescale" \/ target_db = "clickhouse"

\* the one pair of databases the method copies between
Implemented(source_db, target_db) ==
  source_db = "timescale" /\ target_db = "clickhouse"

\* the call, up to cursor.fetchall()
SyncStart(source_db, target_db, key) ==
  /\ pc = "idle" /\ nOps < MaxOps
  /\ arg' = [NoArg EXCEPT !.op = "sync", !.key = key,
                          !.source = source_db, !.target = target_db]
  /\ results' = EmptyMap /\ nOps' = nOps + 1 /\ db0' = db
  /\ IF Implemented(source_db, target_db)
     THEN IF ~Usable("timescale")
          THEN /\ pc' = "done" /\ idx' = 0 /\ exc' = HandleUnusable
               /\ calls' = <<"timescale">>
               /\ UNCHANGED <<ret, fetched, down, handle, nFails>>
          ELSE \E fail \in BOOLEAN :
                 /\ fail => CanFail
                 /\ handle' = AfterCall("timescale", fail)
                 /\ calls' = <<"timescale">>
                 /\ IF fail
                    THEN /\ pc' = "done" /\ idx' = 0 /\ exc' = Unreachable
                         /\ down' = {"timescale"} /\ nFails' = nFails + 1
                         /\ UNCHANGED <<ret, fetched>>
                    ELSE /\ pc' = "sync" /\ idx' = 1 /\ fetched' = ReadingsOf(key)
                         /\ UNCHANGED <<ret, exc, down, nFails>>
     ELSE /\ pc' = "done" /\ idx' = 0 /\ ret' = NotImplemented
          /\ UNCHANGED <<exc, calls, fetched, down, handle, nFails>>
  /\ UNCHANGED <<db, now, nWrites>>

\* (variant: a failed INSERT undoes the rows inserted before it)
SyncInsert_Rollback ==
  /\ pc = "sync" /\ idx <= Len(fetched)
  /\ LET row  == fetched[idx]
         stmt == ParseInsert(InsertText(TsUnix(row[1]), row[2], row[3]))
     IN \E fail \in BOOLEAN :
          /\ fail => CanFail
          /\ calls' = Append(calls, "clickhouse")
          /\ IF fail \/ ~stmt.ok
             THEN /\ pc' = "done" /\ exc' = IF fail THEN Unreachable ELSE SyntaxError
                  /\ down' = IF fail THEN down \cup {"clickhouse"} ELSE down
                  /\ nFails' = IF fail THEN nFails + 1 ELSE nFails
                  /\ db' = [db EXCEPT !.clickhouse = db0.clickhouse]
                  /\ UNCHANGED idx
             ELSE /\ db' = ClickhouseInsert(stmt.row)
                  /\ idx' = idx + 1
                  /\ UNCHANGED <<pc, exc, down, nFails>>
  /\ UNCHANGED <<arg, results, ret, fetched, db0, handle, now, nWrites, nOps>>

\* one round of the loop: INSERT the next fetched row into logs.events
SyncInsert ==
  /\ pc = "sync" /\ idx <= Len(fetched)
  /\ LET row  == fetched[idx]
         stmt == ParseInsert(InsertText(TsUnix(row[1]), row[2], row[3]))
     IN \E fail \in BOOLEAN :
          /\ fail => CanFail
          /\ calls' = Append(calls, "clickhouse")
          /\ IF fail \/ ~stmt.ok
             THEN /\ pc' = "done" /\ exc' = IF fail THEN Unreachable ELSE SyntaxError
                  /\ down' = IF fail THEN down \cup {"clickhouse"} ELSE down
                  /\ nFails' = IF fail THEN nFails + 1 ELSE nFails
                  /\ UNCHANGED <<idx, db>>
             ELSE /\ db' = ClickhouseInsert(stmt.row)
                  /\ idx' = idx + 1
                  /\ UNCHANGED <<pc, exc, down, nFails>>
  /\ UNCHANGED <<arg, results, ret, fetched, db0, handle, now, nWrites, nOps>>

\* after the loop: cursor.close() and the return
SyncFinish ==
  /\ pc = "sync" /\ idx > Len(fetched)
  /\ pc' = "done" /\ ret' = Synced(Len(fetched))
  /\ UNCHANGED <<idx, arg, results, exc, calls, fetched, down, db, db0, handle, now,
                 nWrites, nOps, nFails>>

SyncDataCrossDatabase ==
  \/ \E s \in DbNames, t \in DbNames, k \in Keys : SyncStart(s, t, k)
  \/ SyncInsert
  \/ SyncFinish

(* ---------------------------- close ------------------------------------ *)

CloseFailed == "close failed"

CloseStart ==
  /\ pc = "idle" /\ nOps < MaxOps
  /\ pc' = "close" /\ idx' = 1
  /\ arg' = [NoArg EXCEPT !.op = "close"]
  /\ results' = EmptyMap /\ nOps' = nOps + 1 /\ db0' = db
  /\ UNCHANGED <<ret, exc, calls, fetched, down, db, handle, now, nWrites, nFails>>

\* one h.close() of close(): it raises, and close() with it, or the handle is closed
CloseHandle ==
  /\ pc = "close" /\ idx <= Len(CloseOrder)
  /\ LET h == CloseOrder[idx]
     IN \E fail \in BOOLEAN :
          /\ fail => CanFail
          /\ calls' = Append(calls, h)
          /\ IF fail
             THEN /\ pc' = "done" /\ exc' = CloseFailed
                  /\ down' = down \cup {h} /\ nFails' = nFails + 1
                  /\ UNCHANGED <<idx, handle>>
             ELSE /\ handle' = [handle EXCEPT ![h] = "closed"]
                  /\ idx' = idx + 1
                  /\ pc' = IF idx = Len(CloseOrder) THEN "done" ELSE pc
                  /\ UNCHANGED <<exc, down, nFails>>
  /\ UNCHANGED <<arg, results, ret, fetched, db, db0, now, nWrites, nOps>>

Close ==
  \/ CloseStart
  \/ CloseHandle

(* ---------------------------- the caller ------------------------------- *)

\* The caller takes what the method returned or raised.
Return ==
  /\ pc = "done"
  /\ pc' = "idle" /\ idx' = 0 /\ arg' = NoArg /\ results' = EmptyMap
  /\ ret' = None /\ exc' = None /\ calls' = <<>> /\ fetched' = <<>> /\ down' = {}
  /\ db0' = db
  /\ UNCHANGED <<db, handle, now, nWrites, nOps, nFails>>

\* Time passes between two calls of the Mesh (only write_event reads the clock).
Tick ==
  /\ pc = "idle" /\ now < MaxTime /\ nWrites < MaxWrites /\ nOps < MaxOps
  /\ now' = now + 1
  /\ UNCHANGED <<ctl, db, db0, handle, nWrites, nOps, nFails>>

Next ==
  \/ WriteEvent
  \/ QueryRecentEvents
  \/ SyncDataCrossDatabase
  \/ Close
  \/ Return
  \/ Tick

Spec == Init /\ [][Next]_vars

(* ---------------------------- claims ----------------------------------- *)

\* The method m has returned or raised and the caller has not taken over yet.
Finished(m) == pc = "done" /\ arg.op = m

\* s starts with "error: "
IsError(s) == Len(s) >= 7 /\ SubSeq(s, 1, 7) = "error: "

\* the ten backend names of the result map of write_event
TenBackends ==
  {"redis", "timescale", "influx", "neo4j", "clickhouse", "qdrant",
   "postgres", "mongodb", "elasticsearch", "prometheus"}

\* the five backend names of the result map of query_recent_events
FiveBackends == {"timescale", "clickhouse", "postgres", "mongodb", "elasticsearch"}

\* the string s contains a single quote
HasQuote(s) == \E i \in 1..Len(s) : CharAt(s, i) = "'"

\* the backend a call of the log went to
BackendOf(c) == IF c \in {"redis.set", "redis.hset"} THEN "redis" ELSE c

\* C1: whatever subset of backends fails, the map write_event returns has
\* exactly one entry for each of the ten backend names, and its prometheus
\* entry is the fixed sentinel 'ok (pull-based, no push needed)'.
C1_AllTenEntries ==
  Finished("write") =>
    /\ DOMAIN results = TenBackends
    /\ results["prometheus"] = "ok (pull-based, no push needed)"

\* C1 happens: a write_event has returned in which a backend call failed.
C1_Witness ==
  /\ Finished("write")
  /\ down # {}
  /\ \E b \in DOMAIN results : IsError(results[b])

\* C2: a backend whose call fails in write_event gets an entry starting with
\* 'error: ', no exception escapes, every backend later in the order is still
\* called and gets its own entry, and the entry of a backend whose own call
\* did not fail never depends on the failure of another: it is 'ok' when its
\* handle is usable and its statement is well-formed.
C2_FailureIsLocal ==
  Finished("write") =>
    /\ exc = None
    /\ \A b \in TenBackends \ {"prometheus"} :
         /\ b \in DOMAIN results
         /\ \E i \in 1..Len(calls) : BackendOf(calls[i]) = b
         /\ b \in down => IsError(results[b])
         /\ b \in Relational /\ handle[b] # "open" => IsError(results[b])
         /\ (/\ b \notin down
             /\ b \in Relational => handle[b] = "open"
             /\ b = "clickhouse" => ~HasQuote(arg.key))
            => results[b] = "ok"

\* C2 happens: write_event returned, the call to one backend failed and a
\* backend later in the order was written and reports 'ok'.
C2_Witness ==
  /\ Finished("write")
  /\ "timescale" \in down /\ IsError(results["timescale"])
  /\ results["elasticsearch"] = "ok"
  /\ Len(db.elasticsearch) = Len(db0.elasticsearch) + 1

\* C3: query_recent_events never raises; it returns a map with exactly the
\* five entries timescale, clickhouse, postgres, mongodb, elasticsearch, each
\* a sequence of records or a string starting with 'error: ' (the latter for
\* a backend whose call failed), and every backend is queried whatever
\* happened to the ones before it.
C3_QueryNeverRaises ==
  Finished("query") =>
    /\ exc = None
    /\ DOMAIN results = FiveBackends
    /\ \A b \in FiveBackends :
         /\ \/ results[b].type = "list"
            \/ results[b].type = "str" /\ IsError(results[b].str)
         /\ b \in down => results[b].type = "str"
         /\ \E i \in 1..Len(calls) : calls[i] = b

\* C3 happens: a query returned in which the first backend failed and a later
\* one answered with records.
C3_Witness ==
  /\ Finished("query")
  /\ "timescale" \in down /\ results["timescale"].type = "str"
  /\ results["mongodb"].type = "list" /\ results["mongodb"].rows # <<>>

\* What backend b holds for key k, as [t, row]: the time of each record and
\* the record as a query returns it.
Held(b, k) ==
  LET s == db[b]
      hit == SelectSeq(s, LAMBDA r : IF b \in {"timescale", "clickhouse"}
                                     THEN r[2] = k ELSE r.key = k)
  IN [i \in 1..Len(hit) |->
        CASE b \in {"timescale", "clickhouse"} -> [t |-> hit[i][1], row |-> hit[i]]
          [] b = "postgres" ->
               [t |-> hit[i].ts, row |-> <<hit[i].ts, hit[i].key, hit[i].value>>]
          [] OTHER -> [t |-> hit[i].ts, row |-> hit[i]]]

\* res is the n most recent of held, most recent first
MostRecent(res, held, n) ==
  /\ Len(res) = Min(n, Len(held))
  /\ \E f \in [1..Len(res) -> 1..Len(held)] :
       /\ \A i, j \in 1..Len(res) : i # j => f[i] # f[j]
       /\ \A i \in 1..Len(res) : held[f[i]].row = res[i]
       /\ \A i \in 1..Len(res) - 1 : held[f[i]].t >= held[f[i + 1]].t
       /\ \A j \in 1..Len(held) :
            (\A i \in 1..Len(res) : f[i] # j) =>
              \A i \in 1..Len(res) : held[j].t <= held[f[i]].t

\* C4: query_recent_events(key, limit) returns, for each reachable queryable
\* backend, exactly the min(limit, n) most recent of the n records the backend
\* holds for key, most recent first and none of another key; for a key never
\* written that is the empty sequence, not an error.
C4_MostRecentPerBackend ==
  Finished("query") =>
    \A b \in FiveBackends :
      (b \notin down /\ (b \in Relational => handle[b] = "open")) =>
        /\ results[b].type = "list"
        /\ MostRecent(results[b].rows, Held(b, arg.key), arg.limit)

\* C5: for every (source, target) other than ('timescale', 'clickhouse') and
\* any key, sync_data_cross_database returns the string
\* 'Sync pattern not implemented' (and touches no backend).
C5_OtherPairsNotImplemented ==
  (Finished("sync") /\ ~(arg.source = "timescale" /\ arg.target = "clickhouse")) =>
    /\ ret = "Sync pattern not implemented"
    /\ exc = None
    /\ calls = <<>>
    /\ db = db0

\* C5 happens: the method returned for the reversed pair.
C5_Witness ==
  /\ Finished("sync")
  /\ arg.source = "clickhouse" /\ arg.target = "timescale"
  /\ ret = "Sync pattern not implemented"

\* the rows of the time-series store with key k, as the OLAP store holds them
CopiedRows(k) ==
  LET src == SelectSeq(db.timescale, LAMBDA r : r[2] = k)
  IN [i \in 1..Len(src) |-> <<src[i][1] \div TicksPerSec, src[i][2], src[i][3]>>]

\* C6: a sync_data_cross_database('timescale', 'clickhouse', key) that returns
\* has added to the OLAP store one row for each row the time-series store
\* holds for key and no other row, whatever the OLAP store held before: it is
\* not idempotent, a second run adds a second copy of each row.
C6_SyncAppendsEveryRow ==
  (/\ Finished("sync")
   /\ arg.source = "timescale" /\ arg.target = "clickhouse"
   /\ exc = None) =>
    /\ db.clickhouse = db0.clickhouse \o CopiedRows(arg.key)
    /\ db.timescale = db0.timescale

\* C6 happens: after one write_event of the key, the second sync in a row has
\* returned and the OLAP store holds three copies of the row (one written,
\* two synced), while the store of the other rows is as it was.
C6_Witness ==
  /\ Finished("sync") /\ exc = None /\ ret = "Synced 1 rows"
  /\ nWrites = 1 /\ nOps = 3
  /\ Len(db.clickhouse) = 3
  /\ db.clickhouse[1] = db.clickhouse[2] /\ db.clickhouse[2] = db.clickhouse[3]

\* the number of records of (k, v) in a sequence of records
Count(s, k, v, tuples) ==
  Cardinality({i \in 1..Len(s) :
                 IF tuples THEN s[i][2] = k /\ s[i][3] = v
                 ELSE s[i].key = k /\ s[i].value = v})

\* C7: a write_event adds one more record of (key, value) to each
\* record-oriented backend that reports 'ok', beside the records of the same
\* (key, value) already there (no de-duplication), and leaves in the cache,
\* when redis reports 'ok', the single value of the last write for the key.
C7_RecordsAccumulateCacheOverwrites ==
  Finished("write") =>
    /\ \A b \in FiveBackends :
         results[b] = "ok" =>
           /\ Len(db[b]) = Len(db0[b]) + 1
           /\ SubSeq(db[b], 1, Len(db0[b])) = db0[b]
           /\ LET t == b \in {"timescale", "clickhouse"}
              IN Count(db[b], arg.key, arg.value, t)
                   = Count(db0[b], arg.key, arg.value, t) + 1
    /\ results["redis"] = "ok" => db.redis[arg.key] = ToStr(arg.value)

\* C7 happens: the second of two successful writes of the same (key, value)
\* has returned; each record-oriented backend holds two records of it.
C7_Witness ==
  /\ Finished("write") /\ nWrites = 2
  /\ \A b \in TenBackends \ {"prometheus"} : results[b] = "ok"
  /\ \A b \in FiveBackends :
       Count(db[b], arg.key, arg.value, b \in {"timescale", "clickhouse"}) = 2
  /\ db.redis[arg.key] = ToStr(arg.value)

\* C8: close() does not raise when the close of a handle fails, in particular
\* not on a second call for an already-closed handle, and after each call
\* every one of the eight handles is closed.
C8_CloseTolerant ==
  Finished("close") =>
    /\ exc = None
    /\ \A h \in {"redis", "timescale", "influx", "neo4j", "clickhouse",
                 "postgres", "mongodb", "elasticsearch"} : handle[h] = "closed"

\* C9: when the insert of the i-th source row fails in
\* sync_data_cross_database('timescale', 'clickhouse', key), the exception
\* escapes, the i-1 rows inserted before it stay in the OLAP store, no later
\* row is attempted and the time-series store is unchanged.
C9_NoRollback ==
  (Finished("sync") /\ exc # None /\ idx >= 1) =>
    /\ ret = None
    /\ db.clickhouse = db0.clickhouse \o SubSeq(CopiedRows(arg.key), 1, idx - 1)
    /\ Cardinality({i \in 1..Len(calls) : calls[i] = "clickhouse"}) = idx
    /\ db.timescale = db0.timescale

\* C9 happens: the insert of the second of two rows failed and the first row
\* is in the OLAP store.
C9_Witness ==
  /\ Finished("sync") /\ exc # None /\ idx = 2
  /\ Len(CopiedRows(arg.key)) = 2
  /\ Len(db.clickhouse) = Len(db0.clickhouse) + 1

\* C10: write_event calls the backends one at a time in the order redis,
\* timescale, influx, neo4j, clickhouse, qdrant, postgres, mongodb,
\* elasticsearch, prometheus and query_recent_events in the order timescale,
\* clickhouse, postgres, mongodb, elasticsearch: at every moment the backends
\* called so far are a prefix of the order, each called once (redis: one set,
\* then at most one hset), and each of them has its entry before the next
\* one is called.
C10_FixedOrder ==
  LET W == <<"redis", "timescale", "influx", "neo4j", "clickhouse", "qdrant",
             "postgres", "mongodb", "elasticsearch", "prometheus">>
      Q == <<"timescale", "clickhouse", "postgres", "mongodb", "elasticsearch">>
      first == SelectSeq(calls, LAMBDA c : c # "redis.hset")
      names == [i \in 1..Len(first) |-> BackendOf(first[i])]
  IN /\ arg.op = "write" =>
          /\ DOMAIN results = {W[i] : i \in 1..idx - 1}
          /\ names = SubSeq(W, 1, Min(idx - 1, 9))
          /\ \A i \in 1..Len(calls) :
               /\ calls[i] = "redis.set" => i = 1
               /\ calls[i] = "redis.hset" => i = 2
     /\ arg.op = "query" =>
          /\ DOMAIN results = {Q[i] : i \in 1..idx - 1}
          /\ calls = SubSeq(Q, 1, idx - 1)

\* C10 happens: a write_event has returned after calling all nine stores, one
\* of which failed before the next was called.
C10_Witness ==
  /\ Finished("write") /\ Len(calls) = 10
  /\ "redis" \in down /\ calls[3] = "timescale"

\* the entry of backend b in the map the running method built, as a string
\* when it is one and "" when it is a sequence of records
EntryText(b) ==
  IF arg.op = "write" THEN results[b]
  ELSE IF results[b].type = "str" THEN results[b].str ELSE ""

\* C11: every call is stateless given the fixed handle set: in a write_event
\* or query_recent_events that has returned, a relational backend (timescale,
\* postgres) that was reachable during the call and whose handle close() has
\* not closed gets a non-error entry, whatever the outcome of earlier calls
\* on the same Mesh, in particular after a call in which the statement on
\* that handle failed and was caught without commit or rollback.
C11_StatelessCalls ==
  (Finished("write") \/ Finished("query")) =>
    \A b \in Relational :
      (b \notin down /\ handle[b] # "closed") => ~IsError(EntryText(b))

\* the point write_event sends to the vector store
Point == [id |-> TsUnix(arg.ts), key |-> arg.key, value |-> arg.value]

====
